---- MODULE Spec2Model ----
(***************************************************************************)
(* Rustique tuner (src/src/main.rs): the capture callback appending to the *)
(* shared sample buffer, the analyzer thread (short-time Fourier           *)
(* transform, per-bin averaging, strongest bin, note quantizer,            *)
(* publication, drain) and the egui reader polling the published note and  *)
(* frequency.                                                              *)
(*                                                                         *)
(* Numbers.  An f32 magnitude or sample is a record [nan, n, d]: either    *)
(* not-a-number or the rational n/d (d > 0).  A frequency is an integer    *)
(* count of 1/UnitsPerHz Hz, fine enough to hold every table frequency     *)
(* base * 2^(octave-4) and every midpoint of two of them exactly.  Both    *)
(* stand for the real value of the f32; the code's rounding is not         *)
(* modelled.                                                               *)
(***************************************************************************)
EXTENDS Integers, Sequences, FiniteSets, TLC

\* ------------------------------------------------------------------------
\* Bounds of the model
\* ------------------------------------------------------------------------
\* highest strongest bin given to a pass followed at its full size
MaxBin == 48
\* longest buffer of such a pass, in hops
MaxHops == 5
\* most samples the capture callback delivers over a run
MaxTotal == 6
\* longest chunk one callback delivers
MaxChunk == 2
\* longest buffer handed to compute_short_time_fourier_transform on its own
MaxLen == 7
\* input frequencies of the quantizer lie within this many units of a
\* candidate or of a midpoint of two adjacent candidates
MaxOff == 1

\* ------------------------------------------------------------------------
\* f32 values
\* ------------------------------------------------------------------------
NaN == [nan |-> TRUE, n |-> 0, d |-> 1]

F(k) == [nan |-> FALSE, n |-> k, d |-> 1]

Abs(k) == IF k < 0 THEN -k ELSE k

Min(a, b) == IF a <= b THEN a ELSE b

\* a + b on f32
FAdd(a, b) ==
    IF a.nan \/ b.nan THEN NaN
    ELSE [nan |-> FALSE, n |-> a.n * b.d + b.n * a.d, d |-> a.d * b.d]

\* a * b on f32
FMul(a, b) ==
    IF a.nan \/ b.nan THEN NaN
    ELSE [nan |-> FALSE, n |-> a.n * b.n, d |-> a.d * b.d]

\* a / k on f32, k a positive count (num_frames as f32)
FDivCount(a, k) ==
    IF a.nan THEN NaN ELSE [nan |-> FALSE, n |-> a.n, d |-> a.d * k]

\* f32::partial_cmp: None when either side is not-a-number
partial_cmp(a, b) ==
    IF a.nan \/ b.nan THEN "None"
    ELSE IF a.n * b.d < b.n * a.d THEN "Less"
    ELSE IF a.n * b.d > b.n * a.d THEN "Greater"
    ELSE "Equal"

\* a.partial_cmp(b).unwrap_or(Ordering::Equal)
CmpOrEqual(a, b) ==
    IF partial_cmp(a, b) = "None" THEN "Equal" ELSE partial_cmp(a, b)

\* equality of two f32 values as numbers (NaN equals nothing)
FEq(a, b) == partial_cmp(a, b) = "Equal"

\* largest r with r * r <= k
RECURSIVE ISqrtFrom(_, _)
ISqrtFrom(k, r) == IF (r + 1) * (r + 1) <= k THEN ISqrtFrom(k, r + 1) ELSE r

ISqrt(k) == ISqrtFrom(k, 0)

\* ------------------------------------------------------------------------
\* Program constants
\* ------------------------------------------------------------------------
\* main: let window_size = 4096, scaled down to 4, the largest size whose
\* window coefficients and transform factors are all 0, 1 or -1
window_size == 4

\* main: let hop_size = window_size / 2
hop_size == window_size \div 2

\* main: config.sample_rate(), the capture device's rate
sample_rate == 44100

\* window sizes compute_short_time_fourier_transform is exercised with on
\* its own: those whose coefficients and factors are 0, 1 or -1
WindowSizes == {2, 4}

\* units of frequency per Hz: 100 for the two decimals of the table, 16 for
\* 2^(0 - 4), 2 for the midpoints
UnitsPerHz == 100 * 16 * 2

\* ------------------------------------------------------------------------
\* compute_short_time_fourier_transform
\* ------------------------------------------------------------------------
\* sin and cos of q quarter turns
SinQuarter(q) == <<0, 1, 0, -1>>[(q % 4) + 1]

CosQuarter(q) == <<1, 0, -1, 0>>[(q % 4) + 1]

\* the angle 2 * PI * i / window_size in quarter turns (the size divides 4)
QuarterTurns(i, wsize) == i * (4 \div wsize)

\* hann[i] = sin(PI * 2.0 * i / window_size).powi(2), i from 0
hann(i, wsize) == F(SinQuarter(QuarterTurns(i, wsize)) * SinQuarter(QuarterTurns(i, wsize)))

\* Complex32::new(sample * w, 0.0) for the samples buffer[pos .. pos + window_size),
\* pos from 0
windowed(buf, pos, wsize) ==
    [i \in 1..wsize |->
        [re |-> FMul(buf[pos + i], hann(i - 1, wsize)), im |-> F(0)]]

\* c * e^(-2 PI i q / 4)
CMulTwiddle(c, q) ==
    [re |-> FAdd(FMul(c.re, F(CosQuarter(q))), FMul(c.im, F(SinQuarter(q)))),
     im |-> FAdd(FMul(c.im, F(CosQuarter(q))), FMul(c.re, F(-SinQuarter(q))))]

CAdd(a, b) == [re |-> FAdd(a.re, b.re), im |-> FAdd(a.im, b.im)]

\* sum over j = from .. wsize of x[j] * e^(-2 PI i (j-1) k / wsize), wsize the
\* window size
RECURSIVE FftBin(_, _, _, _)
FftBin(x, k, wsize, from) ==
    IF from > wsize THEN [re |-> F(0), im |-> F(0)]
    ELSE CAdd(CMulTwiddle(x[from], QuarterTurns((from - 1) * k, wsize)),
              FftBin(x, k, wsize, from + 1))

\* fft.process(&mut windowed): the forward discrete Fourier transform
fft_process(x, wsize) == [k \in 1..wsize |-> FftBin(x, k - 1, wsize, 1)]

\* the loop with its bound off by one: while pos + window_size < buffer.len()
RECURSIVE StftLoop_StrictBound(_, _, _, _, _)
StftLoop_StrictBound(buf, wsize, hop, pos, spectrum) ==
    IF pos + wsize < Len(buf)
    THEN StftLoop_StrictBound(buf, wsize, hop, pos + hop,
                  Append(spectrum, fft_process(windowed(buf, pos, wsize), wsize)))
    ELSE spectrum

\* the while loop of compute_short_time_fourier_transform from position pos
RECURSIVE StftLoop(_, _, _, _, _)
StftLoop(buf, wsize, hop, pos, spectrum) ==
    IF pos + wsize <= Len(buf)
    THEN StftLoop(buf, wsize, hop, pos + hop,
                  Append(spectrum, fft_process(windowed(buf, pos, wsize), wsize)))
    ELSE spectrum

compute_short_time_fourier_transform(buf, wsize, hop) ==
    StftLoop(buf, wsize, hop, 0, <<>>)

\* ------------------------------------------------------------------------
\* Magnitudes and their average per bin
\* ------------------------------------------------------------------------
\* Complex32::norm, exact when the value lies on an axis
norm(c) ==
    IF c.re.nan \/ c.im.nan THEN NaN
    ELSE [nan |-> FALSE,
          n |-> ISqrt((c.re.n * c.im.d) * (c.re.n * c.im.d)
                      + (c.im.n * c.re.d) * (c.im.n * c.re.d)),
          d |-> c.re.d * c.im.d]

\* frame[..window_size / 2].iter().map(|v| v.norm()) for every frame
FrequencyMagnitudes(frames, wsize) ==
    [f \in 1..Len(frames) |->
        [b \in 1..(wsize \div 2) |-> norm(frames[f][b])]]

\* average_magnitudes_per_bin[bin_idx] += *mag over the frames from .. last
RECURSIVE SumBin(_, _, _)
SumBin(mags, b, from) ==
    IF from > Len(mags) THEN F(0)
    ELSE FAdd(mags[from][b], SumBin(mags, b, from + 1))

\* the sums, each divided by num_frames
AverageMagnitudes(mags) ==
    [b \in 1..Len(mags[1]) |-> FDivCount(SumBin(mags, b, 1), Len(mags))]

\* ------------------------------------------------------------------------
\* Strongest bin
\* ------------------------------------------------------------------------
\* Iterator::max_by folds from the first element and keeps the accumulator
\* only when the comparison says Greater; positions from 1
RECURSIVE MaxByFrom(_, _, _)
MaxByFrom(avg, best, i) ==
    IF i > Len(avg) THEN best
    ELSE MaxByFrom(avg,
                   IF CmpOrEqual(avg[best], avg[i]) = "Greater" THEN best ELSE i,
                   i + 1)

\* average_magnitudes_per_bin.iter().enumerate().max_by(..): the index from 0
\* of the chosen bin, -1 for None (no bin)
StrongestBin(avg) == IF Len(avg) = 0 THEN -1 ELSE MaxByFrom(avg, 1, 2) - 1

\* sample_rate as f32 / window_size as f32
freq_resolution == (sample_rate * UnitsPerHz) \div window_size

\* strongest_bin_idx as f32 * freq_resolution
DominantFreq(idx) == idx * freq_resolution

\* ------------------------------------------------------------------------
\* frequency_to_note
\* ------------------------------------------------------------------------
\* the table, frequencies in hundredths of a Hz
NOTES ==
    << <<"C", 26163>>, <<"C#", 27718>>, <<"D", 29366>>, <<"D#", 31113>>,
       <<"E", 32963>>, <<"F", 34923>>, <<"F#", 36999>>, <<"G", 39200>>,
       <<"G#", 41530>>, <<"A", 44000>>, <<"A#", 46616>>, <<"B", 49388>> >>

\* the octave loop starting one octave late: for octave in 1..8
Octaves_FromOne == 1..7

\* the octaves of for octave in 0..8
Octaves == 0..7

RECURSIVE Pow2(_)
Pow2(k) == IF k = 0 THEN 1 ELSE 2 * Pow2(k - 1)

\* the exponent with its sign flipped: base_freq * 2f32.powi(4 - octave)
NoteFreq_SignFlipped(base_freq, octave) ==
    base_freq * Pow2(8 - octave) * (UnitsPerHz \div (100 * Pow2(4)))

\* base_freq * 2f32.powi(octave - 4), in units
NoteFreq(base_freq, octave) ==
    base_freq * Pow2(octave) * (UnitsPerHz \div (100 * Pow2(4)))

\* format!("{}{}", name, closest_octave)
Label(name, octave) ==
    name \o <<"0", "1", "2", "3", "4", "5", "6", "7">>[octave + 1]

\* no result
None == [some |-> FALSE, label |-> "", name |-> "", octave |-> 0, note_freq |-> 0]

\* closest_note = None, min_diff = f32::MAX, closest_octave = 0
ScanStart ==
    [found |-> FALSE, name |-> "", note_freq |-> 0,
     min_diff_max |-> TRUE, min_diff |-> 0, closest_octave |-> 0]

\* the comparison made non-strict: diff <= min_diff
DiffLess_OrEqual(diff, st) == st.min_diff_max \/ diff <= st.min_diff

\* diff < min_diff, where f32::MAX exceeds every difference of two frequencies
DiffLess(diff, st) == st.min_diff_max \/ diff < st.min_diff

\* the inner loop from entry i: for (name, base_freq) in NOTES.iter(),
\* if diff < min_diff { min_diff, closest_note, closest_octave = .. }
RECURSIVE ScanNotes(_, _, _, _)
ScanNotes(f, octave, i, st) ==
    IF i > Len(NOTES) THEN st
    ELSE IF DiffLess(Abs(f - NoteFreq(NOTES[i][2], octave)), st)
    THEN ScanNotes(f, octave, i + 1,
                   [found |-> TRUE, name |-> NOTES[i][1],
                    note_freq |-> NoteFreq(NOTES[i][2], octave),
                    min_diff_max |-> FALSE,
                    min_diff |-> Abs(f - NoteFreq(NOTES[i][2], octave)),
                    closest_octave |-> octave])
    ELSE ScanNotes(f, octave, i + 1, st)

\* the outer loop from this octave: for octave in 0..8
RECURSIVE ScanOctaves(_, _, _)
ScanOctaves(f, octave, st) ==
    IF octave \notin Octaves THEN st
    ELSE ScanOctaves(f, octave + 1, ScanNotes(f, octave, 1, st))

\* the result: the label, the note's frequency, and the name and octave the
\* label is made of
NoteResult(st) ==
    IF st.found
    THEN [some |-> TRUE, label |-> Label(st.name, st.closest_octave),
          name |-> st.name, octave |-> st.closest_octave,
          note_freq |-> st.note_freq]
    ELSE None

\* the quantizer without its guard: a frequency <= 0 is scanned like any other
frequency_to_note_NoGuard(f) == NoteResult(ScanOctaves(f, 0, ScanStart))

\* if freq <= 0.0 { return None; } and then the scan
frequency_to_note(f) ==
    IF f <= 0 THEN None ELSE NoteResult(ScanOctaves(f, 0, ScanStart))

\* ------------------------------------------------------------------------
\* State
\* ------------------------------------------------------------------------
VARIABLES
    buffer,           \* audio_data: the samples held by the Mutex<Vec<f32>>
    buffer_lock,      \* who holds the audio_data mutex: "none" or "analyzer"
    note_lock,        \* who holds the detected_note mutex: "none", "analyzer" or "reader"
    freq_lock,        \* who holds the detected_freq mutex: "none", "analyzer" or "reader"
    poisoned,         \* the mutexes a panicking holder has poisoned
    cpc,              \* capture callback: "idle", "lock" (called, at audio_data_clone.lock()),
                      \* "panicked_inside" (panicked while extending), "panicked" (at the unwrap)
    apc,              \* analyzer thread: "sleep", "locked", "publish_note", "publish_freq", "drain",
                      \* "panicked" (at an unwrap)
    stft_frames,      \* analyzer: the frames of this pass
    average_magnitudes_per_bin,  \* analyzer: the averaged spectrum of this pass
    strongest_bin_idx,           \* analyzer: the chosen bin, from 0; -1 when none
    dominant_freq,    \* analyzer: strongest_bin_idx * freq_resolution
    quantized,        \* analyzer: what frequency_to_note(dominant_freq) returned
    detected_note,    \* the Mutex<String> shared with the reader
    detected_freq,    \* the Mutex<f32> shared with the reader
    rpc,              \* Rustique::update: "idle", "note" (note read), "shown" (both read),
                      \* "panicked_inside" (panicked while holding a lock), "panicked" (at an unwrap)
    note,             \* update: let note
    freq,             \* update: let freq
    all_appended,     \* history: every chunk appended so far, concatenated
    published,        \* history: the (label, frequency) pairs published by one pass each
    pass_start,       \* history: the buffer when the analyzer took the lock, while it holds it
    last_pass,        \* history: how the last iteration ended: "none", "skipped" or "analysed"
    size,             \* the window size a function is applied with on its own
    other_freq,       \* a second frequency given to frequency_to_note on its own
    other_quantized,  \* its result
    fpc,              \* position of a function applied on its own: "in" or "out"
    buffer_len,       \* buffer.len() of a pass followed at its full size
    peak_bin,         \* the strongest bin given to that pass
    frame_starts      \* the values of pos at which that pass cut a frame

vars ==
    <<buffer, buffer_lock, note_lock, freq_lock, poisoned, cpc, apc, stft_frames,
      average_magnitudes_per_bin, strongest_bin_idx, dominant_freq, quantized,
      detected_note, detected_freq, rpc, note, freq, all_appended, published,
      pass_start, last_pass, size, other_freq, other_quantized, fpc,
      buffer_len, peak_bin, frame_starts>>

\* the samples a chunk is made of
Samples == {F(0), F(1), NaN}

\* the chunks a callback may deliver: 1 to MaxChunk samples
Chunks == UNION {[1..k -> Samples] : k \in 1..MaxChunk}

\* "A4".to_string() and 440.0_f32
InitialNote == "A4"

InitialFreq == 440 * UnitsPerHz

\* the variables of the threads, as main leaves them before the threads run
ProgramInit ==
    /\ buffer = <<>>
    /\ buffer_lock = "none"
    /\ note_lock = "none"
    /\ freq_lock = "none"
    /\ poisoned = {}
    /\ cpc = "idle"
    /\ apc = "sleep"
    /\ stft_frames = <<>>
    /\ average_magnitudes_per_bin = <<>>
    /\ strongest_bin_idx = -1
    /\ dominant_freq = 0
    /\ quantized = None
    /\ detected_note = InitialNote
    /\ detected_freq = InitialFreq
    /\ rpc = "idle"
    /\ note = ""
    /\ freq = 0
    /\ all_appended = <<>>
    /\ published = {<<InitialNote, InitialFreq>>}
    /\ pass_start = <<>>
    /\ last_pass = "none"

\* the variables only a function applied on its own uses
AloneInit ==
    /\ size = window_size
    /\ other_freq = 0
    /\ other_quantized = None
    /\ fpc = "in"
    /\ buffer_len = 0
    /\ peak_bin = 0
    /\ frame_starts = <<>>

Init == ProgramInit /\ AloneInit

aloneVars == <<size, other_freq, other_quantized, fpc, buffer_len, peak_bin, frame_starts>>

analyzerLocals ==
    <<stft_frames, average_magnitudes_per_bin, strongest_bin_idx, dominant_freq, quantized>>

readerVars == <<rpc, note, freq>>

resultVars == <<detected_note, detected_freq, published>>

resultLocks == <<note_lock, freq_lock, poisoned>>

passHistory == <<pass_start, last_pass>>

\* ------------------------------------------------------------------------
\* Capture callback (main.rs 64-67)
\* ------------------------------------------------------------------------
\* the stream calls the callback with a chunk; it goes to lock audio_data
CaptureCall ==
    /\ cpc = "idle"
    /\ Len(all_appended) < MaxTotal
    /\ cpc' = "lock"
    /\ UNCHANGED <<buffer, buffer_lock, apc, analyzerLocals, resultVars, resultLocks,
                   readerVars, all_appended, passHistory, aloneVars>>

\* the callback appending without regard for the mutex
CaptureMayLock_NoMutex == TRUE

\* audio_data_clone.lock() succeeds only while nobody holds the mutex
CaptureMayLock == buffer_lock = "none"

\* lock().unwrap() on a mutex that is not poisoned, buffer.extend_from_slice(data),
\* unlock at the end of the closure; data is one of chunks
CaptureExtendOf(chunks) ==
    /\ cpc = "lock"
    /\ CaptureMayLock
    /\ "audio_data" \notin poisoned
    /\ \E data \in chunks :
        /\ Len(all_appended) + Len(data) <= MaxTotal
        /\ buffer' = buffer \o data
        /\ all_appended' = all_appended \o data
    /\ cpc' = "idle"
    /\ UNCHANGED <<buffer_lock, apc, analyzerLocals, resultVars, resultLocks, readerVars,
                   passHistory, aloneVars>>

CaptureExtend == CaptureExtendOf(Chunks)

\* ------------------------------------------------------------------------
\* Analyzer thread (main.rs 73-138)
\* ------------------------------------------------------------------------
\* sleep, then audio_data.lock(): the guard lives to the end of the iteration
AnalyzerLock ==
    /\ apc = "sleep"
    /\ buffer_lock = "none"
    /\ buffer_lock' = "analyzer"
    /\ apc' = "locked"
    /\ pass_start' = buffer
    /\ UNCHANGED <<buffer, cpc, analyzerLocals, resultVars, resultLocks, readerVars,
                   all_appended, last_pass, aloneVars>>

\* the end of an iteration: the guard and the locals are dropped
EndIteration(how) ==
    /\ buffer_lock' = "none"
    /\ apc' = "sleep"
    /\ stft_frames' = <<>>
    /\ average_magnitudes_per_bin' = <<>>
    /\ strongest_bin_idx' = -1
    /\ dominant_freq' = 0
    /\ quantized' = None
    /\ pass_start' = <<>>
    /\ last_pass' = how

\* the drain of a hop of no samples
Drain_Nothing(buf) == buf

\* the drain taking a whole window rather than one hop
Drain_WholeWindow(buf) == SubSeq(buf, Min(window_size, Len(buf)) + 1, Len(buf))

\* the drain taking the samples from the wrong end
Drain_FromTail(buf) == SubSeq(buf, 1, Len(buf) - Min(hop_size, Len(buf)))

\* let drain_len = hop_size.min(buffer.len()); buffer.drain(..drain_len)
Drain(buf) == SubSeq(buf, Min(hop_size, Len(buf)) + 1, Len(buf))

\* the short-buffer branch draining like the two emptiness branches do
AnalyzerSkip_Drains ==
    /\ apc = "locked"
    /\ Len(buffer) < window_size
    /\ buffer' = Drain(buffer)
    /\ EndIteration("skipped")
    /\ UNCHANGED <<cpc, resultVars, resultLocks, readerVars, all_appended, aloneVars>>

\* if buffer.len() < window_size { continue; }
AnalyzerSkip ==
    /\ apc = "locked"
    /\ Len(buffer) < window_size
    /\ EndIteration("skipped")
    /\ UNCHANGED <<buffer, cpc, resultVars, resultLocks, readerVars, all_appended, aloneVars>>

\* frequency_to_note(dominant_freq) for the frequency of every bin (entry
\* k + 1 for bin k), worked out once: a pass only ever asks for the note of a
\* bin's frequency.  SubSeq makes the table a tuple of values.
NoteOfBin ==
    SubSeq([k \in 1..(window_size \div 2) |-> frequency_to_note(DominantFreq(k - 1))],
           1, window_size \div 2)

\* lines 84-123 on the locked buffer: the frames, the averaged spectrum, the
\* strongest bin, its frequency and the quantizer's answer; degenerate when
\* the pass stops at one of the two emptiness checks
Analysis(buf) ==
    LET frames == compute_short_time_fourier_transform(buf, window_size, hop_size)
        mags   == FrequencyMagnitudes(frames, window_size)
        empty  == frames = <<>> \/ mags = <<>> \/ mags[1] = <<>>
        avg    == IF empty THEN <<>> ELSE AverageMagnitudes(mags)
        idx    == StrongestBin(avg)
    IN  [frames |-> frames, degenerate |-> empty, avg |-> avg, idx |-> idx,
         dom |-> IF idx < 0 THEN 0 ELSE DominantFreq(idx),
         q |-> IF idx < 0 THEN None ELSE NoteOfBin[idx + 1]]

\* the buffers a pass can find: window_size to MaxTotal samples
PassBuffers == UNION {[1..k -> Samples] : k \in window_size..MaxTotal}

\* Analysis of each of them, worked out once: the set of the pairs (buffer,
\* what the pass finds)
AnalysisOf == {<<buf, Analysis(buf)>> : buf \in PassBuffers}

\* the pass up to the call of frequency_to_note (a is what Analysis finds);
\* a degenerate pass drains and ends here, a pass without a note goes on to
\* the drain
AnalyzerAnalyze ==
    /\ apc = "locked"
    /\ Len(buffer) >= window_size
    /\ \E a \in {(CHOOSE p \in AnalysisOf : p[1] = buffer)[2]} :
        IF a.degenerate
        THEN /\ buffer' = Drain(buffer)
             /\ EndIteration("analysed")
        ELSE /\ stft_frames' = a.frames
             /\ average_magnitudes_per_bin' = a.avg
             /\ strongest_bin_idx' = a.idx
             /\ dominant_freq' = a.dom
             /\ quantized' = a.q
             /\ apc' = IF a.q.some THEN "publish_note" ELSE "drain"
             /\ UNCHANGED <<buffer, buffer_lock, pass_start, last_pass>>
    /\ UNCHANGED <<cpc, resultVars, resultLocks, readerVars, all_appended, aloneVars>>

\* note_clone.lock().unwrap() on a mutex that is free and not poisoned
AnalyzerLockNote ==
    /\ apc = "publish_note"
    /\ note_lock = "none"
    /\ "detected_note" \notin poisoned
    /\ note_lock' = "analyzer"
    /\ UNCHANGED <<buffer, buffer_lock, freq_lock, poisoned, cpc, apc, analyzerLocals,
                   resultVars, readerVars, all_appended, passHistory, aloneVars>>

\* the note written and its guard kept for the rest of the iteration
AnalyzerPublishNote_KeepsGuard ==
    /\ apc = "publish_note"
    /\ note_lock = "analyzer"
    /\ detected_note' = quantized.label
    /\ apc' = "publish_freq"
    /\ UNCHANGED <<buffer, buffer_lock, note_lock, freq_lock, poisoned, cpc,
                   analyzerLocals, detected_freq, published, readerVars, all_appended,
                   passHistory, aloneVars>>

\* *guard = note_name.clone(); the guard is dropped at the end of the statement
AnalyzerPublishNote ==
    /\ apc = "publish_note"
    /\ note_lock = "analyzer"
    /\ detected_note' = quantized.label
    /\ note_lock' = "none"
    /\ apc' = "publish_freq"
    /\ UNCHANGED <<buffer, buffer_lock, freq_lock, poisoned, cpc, analyzerLocals,
                   detected_freq, published, readerVars, all_appended, passHistory,
                   aloneVars>>

\* freq_clone.lock().unwrap() on a mutex that is free and not poisoned
AnalyzerLockFreq ==
    /\ apc = "publish_freq"
    /\ freq_lock = "none"
    /\ "detected_freq" \notin poisoned
    /\ freq_lock' = "analyzer"
    /\ UNCHANGED <<buffer, buffer_lock, note_lock, poisoned, cpc, apc, analyzerLocals,
                   resultVars, readerVars, all_appended, passHistory, aloneVars>>

\* the frequency published in place of the bin's: the note's own
AnalyzerPublishFreq_NoteFreq ==
    /\ apc = "publish_freq"
    /\ freq_lock = "analyzer"
    /\ detected_freq' = quantized.note_freq
    /\ published' = published \cup {<<quantized.label, quantized.note_freq>>}
    /\ freq_lock' = "none"
    /\ apc' = "drain"
    /\ UNCHANGED <<buffer, buffer_lock, note_lock, poisoned, cpc, analyzerLocals,
                   detected_note, readerVars, all_appended, passHistory, aloneVars>>

\* *guard = dominant_freq, which completes the pair; the guard is dropped, and
\* println! follows
AnalyzerPublishFreq ==
    /\ apc = "publish_freq"
    /\ freq_lock = "analyzer"
    /\ detected_freq' = dominant_freq
    /\ published' = published \cup {<<quantized.label, dominant_freq>>}
    /\ freq_lock' = "none"
    /\ apc' = "drain"
    /\ UNCHANGED <<buffer, buffer_lock, note_lock, poisoned, cpc, analyzerLocals,
                   detected_note, readerVars, all_appended, passHistory, aloneVars>>

\* lines 135-136, then the end of the iteration
AnalyzerDrain ==
    /\ apc = "drain"
    /\ buffer' = Drain(buffer)
    /\ EndIteration("analysed")
    /\ UNCHANGED <<cpc, resultVars, resultLocks, readerVars, all_appended, aloneVars>>

\* ------------------------------------------------------------------------
\* Rustique::update (main.rs 20-29)
\* ------------------------------------------------------------------------
\* a new call of update: self.detected_note.lock().unwrap() on a mutex that
\* is free and not poisoned
ReaderLockNote ==
    /\ rpc \in {"idle", "shown"}
    /\ note_lock = "none"
    /\ "detected_note" \notin poisoned
    /\ note_lock' = "reader"
    /\ UNCHANGED <<buffer, buffer_lock, freq_lock, poisoned, cpc, apc, analyzerLocals,
                   resultVars, readerVars, all_appended, passHistory, aloneVars>>

\* the note read and its lock kept until update returns
ReaderNote_KeepsLock ==
    /\ note_lock = "reader"
    /\ rpc \in {"idle", "shown"}
    /\ note' = detected_note
    /\ freq' = 0
    /\ rpc' = "note"
    /\ UNCHANGED <<buffer, buffer_lock, note_lock, freq_lock, poisoned, cpc, apc,
                   analyzerLocals, resultVars, all_appended, passHistory, aloneVars>>

\* let note = guard.clone(); the guard is dropped at the end of the statement;
\* freq is not yet bound
ReaderNote ==
    /\ note_lock = "reader"
    /\ note' = detected_note
    /\ freq' = 0
    /\ rpc' = "note"
    /\ note_lock' = "none"
    /\ UNCHANGED <<buffer, buffer_lock, freq_lock, poisoned, cpc, apc, analyzerLocals,
                   resultVars, all_appended, passHistory, aloneVars>>

\* self.detected_freq.lock().unwrap() on a mutex that is free and not poisoned
ReaderLockFreq ==
    /\ rpc = "note"
    /\ freq_lock = "none"
    /\ "detected_freq" \notin poisoned
    /\ freq_lock' = "reader"
    /\ UNCHANGED <<buffer, buffer_lock, note_lock, poisoned, cpc, apc, analyzerLocals,
                   resultVars, readerVars, all_appended, passHistory, aloneVars>>

\* let freq = *guard; the guard is dropped, then the panel shows both
ReaderFreq ==
    /\ freq_lock = "reader"
    /\ freq' = detected_freq
    /\ rpc' = "shown"
    /\ freq_lock' = "none"
    /\ UNCHANGED <<buffer, buffer_lock, note_lock, poisoned, cpc, apc, analyzerLocals,
                   resultVars, note, all_appended, passHistory, aloneVars>>

Next ==
    \/ CaptureCall
    \/ CaptureExtend
    \/ AnalyzerLock
    \/ AnalyzerSkip
    \/ AnalyzerAnalyze
    \/ AnalyzerLockNote
    \/ AnalyzerPublishNote
    \/ AnalyzerLockFreq
    \/ AnalyzerPublishFreq
    \/ AnalyzerDrain
    \/ ReaderLockNote
    \/ ReaderNote
    \/ ReaderLockFreq
    \/ ReaderFreq

Spec == Init /\ [][Next]_vars

\* ------------------------------------------------------------------------
\* The threads under fair scheduling
\* ------------------------------------------------------------------------
\* the chunks of a device that delivers no not-a-number
NumberChunks == UNION {[1..k -> {F(0), F(1)}] : k \in 1..MaxChunk}

CaptureExtendNumbers == CaptureExtendOf(NumberChunks)

NextFair ==
    \/ CaptureCall
    \/ CaptureExtendNumbers
    \/ AnalyzerLock
    \/ AnalyzerSkip
    \/ AnalyzerAnalyze
    \/ AnalyzerLockNote
    \/ AnalyzerPublishNote
    \/ AnalyzerLockFreq
    \/ AnalyzerPublishFreq
    \/ AnalyzerDrain
    \/ ReaderLockNote
    \/ ReaderNote
    \/ ReaderLockFreq
    \/ ReaderFreq

\* the analyzer thread and update keep running: every step of theirs that
\* stays possible is taken
RunsOn ==
    /\ WF_vars(AnalyzerSkip)
    /\ WF_vars(AnalyzerAnalyze)
    /\ WF_vars(AnalyzerPublishNote)
    /\ WF_vars(AnalyzerPublishFreq)
    /\ WF_vars(AnalyzerDrain)
    /\ WF_vars(ReaderNote)
    /\ WF_vars(ReaderFreq)

\* a lock that is free again and again is granted to the thread that waits
\* for it: the analyzer sleeps between two holds of audio_data, and the
\* result locks are held for one statement
LocksGranted ==
    /\ SF_vars(CaptureExtendNumbers)
    /\ SF_vars(AnalyzerLock)
    /\ SF_vars(AnalyzerLockNote)
    /\ SF_vars(AnalyzerLockFreq)
    /\ SF_vars(ReaderLockNote)
    /\ SF_vars(ReaderLockFreq)

SpecFair == Init /\ [][NextFair]_vars /\ RunsOn /\ LocksGranted

\* ------------------------------------------------------------------------
\* The threads with panics inside critical sections
\* ------------------------------------------------------------------------
\* the capture callback panics in extend_from_slice, holding the audio_data
\* guard: the mutex is poisoned and released, the buffer is as it was
CapturePanicInside ==
    /\ cpc = "lock"
    /\ CaptureMayLock
    /\ "audio_data" \notin poisoned
    /\ poisoned' = poisoned \cup {"audio_data"}
    /\ cpc' = "panicked_inside"
    /\ UNCHANGED <<buffer, buffer_lock, note_lock, freq_lock, apc, analyzerLocals,
                   resultVars, readerVars, all_appended, passHistory, aloneVars>>

\* update panics while it holds the guard of detected_note or of
\* detected_freq: that mutex is poisoned and released
ReaderPanicInside ==
    /\ \/ /\ note_lock = "reader"
          /\ poisoned' = poisoned \cup {"detected_note"}
          /\ note_lock' = "none"
          /\ UNCHANGED freq_lock
       \/ /\ freq_lock = "reader"
          /\ poisoned' = poisoned \cup {"detected_freq"}
          /\ freq_lock' = "none"
          /\ UNCHANGED note_lock
    /\ rpc' = "panicked_inside"
    /\ UNCHANGED <<buffer, buffer_lock, cpc, apc, analyzerLocals, resultVars, note,
                   freq, all_appended, passHistory, aloneVars>>

\* audio_data_clone.lock().unwrap() on a poisoned mutex: the callback panics
CapturePanicOnPoison ==
    /\ cpc = "lock"
    /\ CaptureMayLock
    /\ "audio_data" \in poisoned
    /\ cpc' = "panicked"
    /\ UNCHANGED <<buffer, buffer_lock, resultLocks, apc, analyzerLocals, resultVars,
                   readerVars, all_appended, passHistory, aloneVars>>

\* note_clone.lock().unwrap() or freq_clone.lock().unwrap() on a poisoned
\* mutex: the analyzer thread panics holding the audio_data guard, which
\* poisons audio_data and releases it
AnalyzerPanicOnPoison ==
    /\ \/ apc = "publish_note" /\ note_lock = "none" /\ "detected_note" \in poisoned
       \/ apc = "publish_freq" /\ freq_lock = "none" /\ "detected_freq" \in poisoned
    /\ apc' = "panicked"
    /\ buffer_lock' = "none"
    /\ poisoned' = poisoned \cup {"audio_data"}
    /\ UNCHANGED <<buffer, note_lock, freq_lock, cpc, analyzerLocals, resultVars,
                   readerVars, all_appended, passHistory, aloneVars>>

NextPoison ==
    \/ Next
    \/ CapturePanicInside
    \/ ReaderPanicInside
    \/ CapturePanicOnPoison
    \/ AnalyzerPanicOnPoison

SpecPoison == Init /\ [][NextPoison]_vars

\* ------------------------------------------------------------------------
\* compute_short_time_fourier_transform applied on its own
\* ------------------------------------------------------------------------
\* the buffers it is given: up to MaxLen samples
StftBuffers == UNION {[1..k -> Samples] : k \in 0..MaxLen}

\* every variable but the function's input and output, as main leaves them
IdleInit ==
    /\ buffer_lock = "none"
    /\ note_lock = "none"
    /\ freq_lock = "none"
    /\ poisoned = {}
    /\ cpc = "idle"
    /\ apc = "sleep"
    /\ average_magnitudes_per_bin = <<>>
    /\ strongest_bin_idx = -1
    /\ detected_note = InitialNote
    /\ detected_freq = InitialFreq
    /\ rpc = "idle"
    /\ note = ""
    /\ freq = 0
    /\ all_appended = <<>>
    /\ published = {<<InitialNote, InitialFreq>>}
    /\ pass_start = <<>>
    /\ last_pass = "none"
    /\ fpc = "in"

idleVars ==
    <<buffer_lock, note_lock, freq_lock, poisoned, cpc, apc,
      average_magnitudes_per_bin, strongest_bin_idx,
      detected_note, detected_freq, rpc, note, freq, all_appended, published,
      pass_start, last_pass>>

StftInit ==
    /\ IdleInit
    /\ buffer \in StftBuffers
    /\ size \in WindowSizes
    /\ stft_frames = <<>>
    /\ dominant_freq = 0
    /\ quantized = None
    /\ other_freq = 0
    /\ other_quantized = None
    /\ buffer_len = 0
    /\ peak_bin = 0
    /\ frame_starts = <<>>

\* compute_short_time_fourier_transform(&buffer, window_size, hop_size) with
\* hop_size = window_size / 2
StftApply ==
    /\ fpc = "in"
    /\ stft_frames' = compute_short_time_fourier_transform(buffer, size, size \div 2)
    /\ fpc' = "out"
    /\ UNCHANGED <<idleVars, buffer, size, dominant_freq, quantized, other_freq,
                   other_quantized, buffer_len, peak_bin, frame_starts>>

StftNext == StftApply

SpecStft == StftInit /\ [][StftNext]_vars

\* ------------------------------------------------------------------------
\* frequency_to_note applied on its own
\* ------------------------------------------------------------------------
\* the 96 candidates by their place in the scan: rank r is note (r mod 12) of
\* octave (r div 12); its frequency is reference_frequency * 2^(octave - 4)
Ranks == 0..95

RankOctave(r) == r \div 12

RankNote(r) == (r % 12) + 1

RefFreq(i, o) == NOTES[i][2] * Pow2(o) * (UnitsPerHz \div (100 * 16))

RankFreq(r) == RefFreq(RankNote(r), RankOctave(r))

RefFreqs == {RankFreq(r) : r \in Ranks}

LowestRef == CHOOSE c \in RefFreqs : \A e \in RefFreqs : c <= e

HighestRef == CHOOSE c \in RefFreqs : \A e \in RefFreqs : e <= c

\* the candidate next above c
NextAbove(c) ==
    CHOOSE e \in RefFreqs : e > c /\ \A g \in RefFreqs : g > c => e <= g

\* the frequencies exactly midway between two adjacent candidates
Midpoints == {(c + NextAbove(c)) \div 2 : c \in RefFreqs \ {HighestRef}}

\* the frequencies given to frequency_to_note: every candidate, every
\* midpoint and its neighbours, and frequencies outside the table's range
QFreqs ==
    RefFreqs
    \cup {m + d : m \in Midpoints, d \in (-MaxOff)..MaxOff}
    \cup {1, LowestRef - MaxOff, HighestRef + MaxOff, DominantFreq(1)}

\* frequency_to_note of each of them, worked out once: the set of the pairs
\* (frequency, result)
NoteOfFreq == {<<f, frequency_to_note(f)>> : f \in QFreqs}

\* the result the table holds for f
Quantized(f) == (CHOOSE p \in NoteOfFreq : p[1] = f)[2]

QuantizerInit ==
    /\ IdleInit
    /\ buffer = <<>>
    /\ size = window_size
    /\ stft_frames = <<>>
    /\ dominant_freq \in QFreqs
    /\ other_freq \in QFreqs
    /\ dominant_freq <= other_freq
    /\ quantized = None
    /\ other_quantized = None
    /\ buffer_len = 0
    /\ peak_bin = 0
    /\ frame_starts = <<>>

\* frequency_to_note(dominant_freq), and the same for the second frequency
QuantizerApply ==
    /\ fpc = "in"
    /\ quantized' = Quantized(dominant_freq)
    /\ other_quantized' = Quantized(other_freq)
    /\ fpc' = "out"
    /\ UNCHANGED <<idleVars, buffer, size, stft_frames, dominant_freq, other_freq,
                   buffer_len, peak_bin, frame_starts>>

QuantizerNext == QuantizerApply

SpecQuantizer == QuantizerInit /\ [][QuantizerNext]_vars

\* ------------------------------------------------------------------------
\* One pass at the program's own sizes: the frames cut from a buffer of a
\* given length, and the frequency and note of a given strongest bin
\* ------------------------------------------------------------------------
\* main: let window_size = 4096
full_window_size == 4096

\* main: let hop_size = window_size / 2
full_hop_size == full_window_size \div 2

\* the positions of the while loop of compute_short_time_fourier_transform:
\* while pos + window_size <= buffer.len() { ..; pos += hop_size }, cutting
\* short one frame
RECURSIVE FrameStarts_StrictBound(_, _, _, _, _)
FrameStarts_StrictBound(len, wsize, hop, pos, starts) ==
    IF pos + wsize < len
    THEN FrameStarts_StrictBound(len, wsize, hop, pos + hop, Append(starts, pos))
    ELSE starts

\* the positions of the while loop of compute_short_time_fourier_transform:
\* while pos + window_size <= buffer.len() { ..; pos += hop_size }
RECURSIVE FrameStarts(_, _, _, _, _)
FrameStarts(len, wsize, hop, pos, starts) ==
    IF pos + wsize <= len
    THEN FrameStarts(len, wsize, hop, pos + hop, Append(starts, pos))
    ELSE starts

\* freq_resolution = sample_rate as f32 / window_size as f32, in units per
\* bin: the fraction n / d in lower terms
full_freq_resolution ==
    [n |-> (sample_rate * UnitsPerHz) \div 128, d |-> full_window_size \div 128]

\* dominant_freq = strongest_bin_idx as f32 * freq_resolution, to the unit
\* below
FullDominantFreq(idx) == (idx * full_freq_resolution.n) \div full_freq_resolution.d

\* the buffer lengths and the bins given
ScenarioLens == {k * full_hop_size : k \in 0..MaxHops}

ScenarioBins == 0..MaxBin

\* frequency_to_note of the frequency of each bin given, worked out once
NoteOfFullBin == {<<k, frequency_to_note(FullDominantFreq(k))>> : k \in ScenarioBins}

ScenarioInit ==
    /\ IdleInit
    /\ buffer = <<>>
    /\ size = full_window_size
    /\ stft_frames = <<>>
    /\ dominant_freq = 0
    /\ quantized = None
    /\ other_freq = 0
    /\ other_quantized = None
    /\ buffer_len \in ScenarioLens
    /\ peak_bin \in ScenarioBins
    /\ frame_starts = <<>>

\* the frames of the pass, the frequency of its strongest bin and
\* frequency_to_note(dominant_freq)
ScenarioApply ==
    /\ fpc = "in"
    /\ frame_starts' = FrameStarts(buffer_len, size, size \div 2, 0, <<>>)
    /\ dominant_freq' = FullDominantFreq(peak_bin)
    /\ quantized' = (CHOOSE p \in NoteOfFullBin : p[1] = peak_bin)[2]
    /\ fpc' = "out"
    /\ UNCHANGED <<idleVars, buffer, size, stft_frames, other_freq, other_quantized,
                   buffer_len, peak_bin>>

ScenarioNext == ScenarioApply

SpecScenario == ScenarioInit /\ [][ScenarioNext]_vars

\* ------------------------------------------------------------------------
\* Claims about the threads (specification Spec)
\* ------------------------------------------------------------------------
\* the analyzer has the results of this pass at hand
Analysed == apc \in {"publish_note", "publish_freq", "drain"}

\* C1: the (note, frequency) pair the reader obtains in one poll is a pair
\* that one pass published together, or the initial pair; never the note of
\* one pass with the frequency of another.
C1_PairPublishedTogether == rpc = "shown" => <<note, freq>> \in published

\* C2: a pass that produced at least one frame ends with the buffer shorter
\* than it was at the start of the pass by exactly min(hop_size, length at
\* the start), whatever the capture callback does meanwhile.
C2_PassShortensByHop ==
    [][(apc = "drain" /\ stft_frames # <<>> /\ apc' = "sleep")
        => Len(buffer') = Len(pass_start) - Min(hop_size, Len(pass_start))]_vars

\* a pass over everything appended so far has ended, one hop shorter, while
\* the capture callback has been called and is at the lock
C2_Witness ==
    /\ apc = "sleep"
    /\ last_pass = "analysed"
    /\ cpc = "lock"
    /\ Len(all_appended) >= window_size
    /\ Len(buffer) = Len(all_appended) - hop_size

\* C3: the buffer is always a contiguous suffix of all the chunks appended
\* so far, in arrival order: appends add at the tail, drains remove from
\* the head, nothing is reordered or changed in place.
C3_BufferIsSuffix ==
    \E k \in 0..Len(all_appended) :
        buffer = SubSeq(all_appended, k + 1, Len(all_appended))

\* a drained buffer that differs from the head of what was appended
C3_Witness ==
    /\ last_pass = "analysed"
    /\ Len(buffer) >= window_size - 1
    /\ Len(all_appended) = Len(buffer) + hop_size
    /\ buffer # SubSeq(all_appended, 1, Len(buffer))

\* C5: a wake-up that finds fewer than window_size samples yields no
\* frames, leaves the published note and frequency as they were and
\* retains the buffer.
C5_ShortBufferSkipped ==
    [][(apc = "locked" /\ Len(buffer) < window_size /\ apc' # "locked")
        => /\ compute_short_time_fourier_transform(buffer, window_size, hop_size) = <<>>
           /\ stft_frames' = <<>>
           /\ buffer' = buffer
           /\ detected_note' = detected_note
           /\ detected_freq' = detected_freq
           /\ apc' = "sleep"]_vars

\* a skipped wake-up after a publication, with samples kept in the buffer
C5_Witness ==
    /\ apc = "sleep"
    /\ last_pass = "skipped"
    /\ Len(buffer) > 0
    /\ detected_note # InitialNote

\* the averaged spectrum holds no not-a-number
Comparable(avg) == \A b \in 1..Len(avg) : ~avg[b].nan

\* bin k (from 0) holds a maximum of avg and no lower bin holds as much
LowestMaxBin(avg, k) ==
    /\ \A b \in 1..Len(avg) : partial_cmp(avg[b], avg[k + 1]) \in {"Less", "Equal"}
    /\ \A b \in 1..k : partial_cmp(avg[b], avg[k + 1]) = "Less"

\* C6: the estimator selects the bin of maximum averaged magnitude, the
\* lowest such bin when several share the maximum, and reports that index
\* times sample_rate / window_size.
C6_LowestMaxBinSelected ==
    (Analysed /\ Comparable(average_magnitudes_per_bin))
        => /\ LowestMaxBin(average_magnitudes_per_bin, strongest_bin_idx)
           /\ dominant_freq * window_size = strongest_bin_idx * sample_rate * UnitsPerHz

\* C7: a not-a-number magnitude is never selected: when the averaged
\* spectrum holds a comparable value the selected bin holds one that is >=
\* every other comparable value, and no note is published from a bin whose
\* magnitude is not-a-number.
C7_NaNNeverSelected ==
    Analysed =>
        LET avg == average_magnitudes_per_bin
            sel == avg[strongest_bin_idx + 1]
        IN  /\ (\E b \in 1..Len(avg) : ~avg[b].nan)
                => /\ ~sel.nan
                   /\ \A b \in 1..Len(avg) :
                        avg[b].nan \/ partial_cmp(avg[b], sel) \in {"Less", "Equal"}
            /\ apc \in {"publish_note", "publish_freq"} => ~sel.nan

\* ------------------------------------------------------------------------
\* Claims about compute_short_time_fourier_transform (specification SpecStft)
\* ------------------------------------------------------------------------
\* the number of frames the claim gives for a buffer of len samples
FrameCount(len, wsize, hop) ==
    IF len >= wsize THEN ((len - wsize) \div hop) + 1 ELSE 0

\* C4: for a buffer of L samples the function returns
\* floor((L - window_size) / hop_size) + 1 frames when L >= window_size and
\* none when L < window_size: one frame for L = window_size, two for
\* L = window_size + hop_size; frame j is the transform of the windowed
\* samples [j * hop_size, j * hop_size + window_size).
C4_FrameCount ==
    fpc = "out" =>
        LET hop == size \div 2
            L == Len(buffer)
        IN  /\ Len(stft_frames) = FrameCount(L, size, hop)
            /\ L = size => Len(stft_frames) = 1
            /\ L = size + hop => Len(stft_frames) = 2
            /\ L < size => stft_frames = <<>>
            /\ \A j \in 0..(Len(stft_frames) - 1) :
                /\ j * hop + size <= L
                /\ stft_frames[j + 1] = fft_process(windowed(buffer, j * hop, size), size)

\* the longest buffer given with the larger window: two frames, one sample
\* left over
C4_Witness ==
    /\ fpc = "out"
    /\ size = window_size
    /\ Len(buffer) = window_size + hop_size + 1
    /\ Len(stft_frames) = 2

\* ------------------------------------------------------------------------
\* Claims about frequency_to_note (specification SpecQuantizer)
\* ------------------------------------------------------------------------
\* C8: frequency_to_note of exactly the frequency of one of the 96
\* candidates returns that candidate's note name, octave, label and
\* frequency (difference zero).
C8_RoundTrip ==
    fpc = "out" =>
        \A r \in Ranks :
            dominant_freq = RankFreq(r)
                => /\ quantized.some
                   /\ quantized.name = NOTES[RankNote(r)][1]
                   /\ quantized.octave = RankOctave(r)
                   /\ quantized.label = Label(NOTES[RankNote(r)][1], RankOctave(r))
                   /\ quantized.note_freq = dominant_freq

\* the highest candidate, B7, given back
C8_Witness ==
    /\ fpc = "out"
    /\ dominant_freq = HighestRef
    /\ quantized.label = "B7"
    /\ quantized.note_freq = HighestRef

\* Frequencies are exact multiples of 1 / UnitsPerHz Hz.  Between two
\* adjacent candidates the f32 subtraction freq - note_freq is exact (the
\* operands are within a factor of two of each other), and rounding keeps
\* the order of the other differences, so the scan compares as it does here.
\* the candidate nearest to f, the one met first when two are equally near
NearestRank(f) ==
    CHOOSE r \in Ranks :
        \A s \in Ranks :
            /\ Abs(RankFreq(r) - f) <= Abs(RankFreq(s) - f)
            /\ s < r => Abs(RankFreq(r) - f) < Abs(RankFreq(s) - f)

\* the nearest candidate of each frequency given, worked out once
NearestOfFreq == {<<f, NearestRank(f)>> : f \in QFreqs}

Nearest(f) == (CHOOSE p \in NearestOfFreq : p[1] = f)[2]

\* result q is the candidate of rank r
IsCandidate(q, r) ==
    /\ q.some
    /\ q.name = NOTES[RankNote(r)][1]
    /\ q.octave = RankOctave(r)
    /\ q.note_freq = RankFreq(r)
    /\ q.label = Label(q.name, q.octave)

\* C9: for every f > 0 frequency_to_note returns the candidate whose
\* frequency is nearest to f, the one met first in the scan (octave
\* ascending, table order within an octave) when two are equally near; the
\* label is the note name followed by the octave number.
C9_NearestCandidate ==
    fpc = "out" =>
        /\ IsCandidate(quantized, Nearest(dominant_freq))
        /\ IsCandidate(other_quantized, Nearest(other_freq))

\* a frequency exactly midway between B of one octave and C of the next:
\* the B, met first, is returned
C9_Witness ==
    /\ fpc = "out"
    /\ dominant_freq \in Midpoints
    /\ quantized.name = "B"
    /\ dominant_freq - quantized.note_freq = NextAbove(quantized.note_freq) - dominant_freq

\* f lies in the range the table covers and is not midway between two
\* adjacent candidates
InRange(f) == LowestRef <= f /\ f <= HighestRef /\ f \notin Midpoints

\* C10: for two frequencies 0 < f1 < f2 in the range of the table (C0 to
\* B7), neither midway between two adjacent candidates, the octave
\* returned for f1 is <= the octave returned for f2.
C10_OctaveMonotone ==
    (fpc = "out" /\ 0 < dominant_freq /\ dominant_freq < other_freq
        /\ InRange(dominant_freq) /\ InRange(other_freq))
        => quantized.octave <= other_quantized.octave

\* two frequencies on the two sides of the boundary between two octaves
C10_Witness ==
    /\ fpc = "out"
    /\ InRange(dominant_freq)
    /\ InRange(other_freq)
    /\ other_freq = dominant_freq + 2
    /\ quantized.octave + 1 = other_quantized.octave

\* ------------------------------------------------------------------------
\* Further claims about the threads (specification Spec)
\* ------------------------------------------------------------------------
\* C11: when the strongest bin is bin 0 the estimated frequency is <= 0,
\* the quantizer returns no result, no note is emitted, and the published
\* note and frequency keep their previous values for that pass.
C11_NoNoteForBinZero ==
    [][/\ strongest_bin_idx' = 0
            => /\ dominant_freq' <= 0
               /\ frequency_to_note(dominant_freq') = None
               /\ quantized' = None
               /\ apc' = "drain"
       /\ (strongest_bin_idx = 0 \/ strongest_bin_idx' = 0)
            => /\ detected_note' = detected_note
               /\ detected_freq' = detected_freq
               /\ published' = published]_vars

\* a pass that found bin 0 strongest, after an earlier pass published a note
C11_Witness ==
    /\ apc = "drain"
    /\ strongest_bin_idx = 0
    /\ detected_note # InitialNote
    /\ <<detected_note, detected_freq>> \in published

\* ------------------------------------------------------------------------
\* Claims about one pass at the program's sizes (specification SpecScenario)
\* ------------------------------------------------------------------------
\* the pass of the scenario: sample_rate 44100, window_size 4096, hop_size
\* 2048, a buffer of 8192 samples, strongest bin 41
ScenarioPass ==
    /\ fpc = "out"
    /\ sample_rate = 44100
    /\ size = 4096
    /\ size \div 2 = 2048
    /\ buffer_len = 8192
    /\ peak_bin = 41

\* the estimated frequency is 41 * 44100 / 4096 Hz (to the unit below, and
\* not at a midpoint of two candidates) and the result is "A", octave 4,
\* 440.0, label "A4"
ScenarioNote ==
    /\ dominant_freq * (4096 \div 128) <= 41 * 44100 * (UnitsPerHz \div 128)
    /\ 41 * 44100 * (UnitsPerHz \div 128) < (dominant_freq + 1) * (4096 \div 128)
    /\ dominant_freq \notin Midpoints
    /\ quantized.some
    /\ quantized.name = "A"
    /\ quantized.octave = 4
    /\ quantized.note_freq = 440 * UnitsPerHz
    /\ quantized.label = "A4"

\* C12 as stated: in the scenario the pass produces two frames, the
\* estimated frequency is 41 * 44100 / 4096 Hz and the result is A4, 440.0.
C12_ScenarioTwoFrames == ScenarioPass => (Len(frame_starts) = 2 /\ ScenarioNote)

\* C12 amended: in the scenario the pass produces three frames, at
\* positions 0, 2048 and 4096; the estimated frequency is
\* 41 * 44100 / 4096 Hz and the result is A4, 440.0.
C12_ScenarioThreeFrames ==
    ScenarioPass => (frame_starts = <<0, 2048, 4096>> /\ ScenarioNote)

C12_Witness == ScenarioPass /\ Len(frame_starts) = 3 /\ quantized.label = "A4"

\* ------------------------------------------------------------------------
\* Claims about the locks (specification Spec)
\* ------------------------------------------------------------------------
\* C13: the analyzer holds the buffer lock only while it reads or drains
\* the buffer, never while it publishes the result (nor while it windows,
\* transforms, aggregates, quantizes or prints), so a capture callback that
\* wants to append never waits for a whole pass.
C13_BufferLockOnlyForBuffer ==
    /\ buffer_lock = "analyzer" => apc \in {"locked", "drain"}
    /\ (cpc = "lock" /\ apc \in {"publish_note", "publish_freq"}) => CaptureMayLock

\* the reader is at line 22 and another thread holds the note lock
ReaderWaitsForNote == rpc \in {"idle", "shown"} /\ note_lock \notin {"none", "reader"}

\* the reader is at line 23 and another thread holds the frequency lock
ReaderWaitsForFreq == rpc = "note" /\ freq_lock \notin {"none", "reader"}

\* C14: the reader is never blocked waiting for a pass to complete: the
\* analyzer holds a result lock only for the single assignment of the new
\* value (it holds it only at that statement and its next step writes the
\* value and releases), and the reader never needs the buffer lock: every
\* step of the reader is taken whoever holds the buffer lock and leaves it
\* alone.
C14_ReaderNeverWaitsForPass ==
    [][/\ note_lock = "analyzer" => apc = "publish_note"
       /\ freq_lock = "analyzer" => apc = "publish_freq"
       /\ (note_lock = "analyzer" /\ apc' # apc)
            => (note_lock' = "none" /\ detected_note' = quantized.label)
       /\ (freq_lock = "analyzer" /\ apc' # apc)
            => (freq_lock' = "none" /\ detected_freq' = dominant_freq)
       /\ ReaderWaitsForNote => (note_lock = "analyzer" /\ apc = "publish_note")
       /\ ReaderWaitsForFreq => (freq_lock = "analyzer" /\ apc = "publish_freq")
       /\ (rpc' # rpc \/ (note_lock' = "reader") # (note_lock = "reader")
                       \/ (freq_lock' = "reader") # (freq_lock = "reader"))
            => buffer_lock' = buffer_lock
       /\ (rpc \in {"idle", "shown"} /\ note_lock = "none") => ENABLED ReaderLockNote
       /\ (rpc = "note" /\ freq_lock = "none") => ENABLED ReaderLockFreq]_vars

\* the reader waits for the note lock while the analyzer, in a pass and
\* holding the buffer lock, holds it for the assignment
C14_Witness ==
    /\ ReaderWaitsForNote
    /\ note_lock = "analyzer"
    /\ buffer_lock = "analyzer"
    /\ cpc = "lock"

\* ------------------------------------------------------------------------
\* Claims about panics inside critical sections (specification SpecPoison)
\* ------------------------------------------------------------------------
\* C15: lock poisoning never stops the pipeline: when a holder of the
\* buffer lock or of a result lock has panicked inside its critical
\* section, neither the analyzer nor the capture callback panics as a
\* consequence; the analyzer goes on running passes.
C15_PoisonNeverStops ==
    poisoned # {} => (apc # "panicked" /\ cpc # "panicked")

\* ------------------------------------------------------------------------
\* Further claims about the passes (specification Spec)
\* ------------------------------------------------------------------------
\* the frames a pass over buf cuts
FramesOf(buf) == compute_short_time_fourier_transform(buf, window_size, hop_size)

\* C16: draining one hop preserves the overlap: after a pass on a buffer of
\* L >= window_size samples the buffer holds exactly the samples that were
\* at offsets hop_size .. L-1 before the pass; the samples of the second
\* frame of the pass are the samples of the first frame of the next pass,
\* whatever chunk is appended before it; and with no appends a pass of n
\* frames is followed by one of n - 1, frame j + 1 becoming frame j.
C16_DrainPreservesOverlap ==
    [][(apc = "drain" /\ apc' = "sleep" /\ Len(pass_start) >= window_size)
        => \E next \in {FramesOf(buffer')} :
            /\ buffer' = SubSeq(pass_start, hop_size + 1, Len(pass_start))
            /\ Len(next) = Len(stft_frames) - 1
            /\ \A j \in 1..Len(next) : next[j] = stft_frames[j + 1]
            /\ Len(pass_start) >= window_size + hop_size
                => \A data \in Chunks :
                    SubSeq(buffer' \o data, 1, window_size)
                        = SubSeq(pass_start, hop_size + 1, hop_size + window_size)]_vars

\* a pass that cut two different frames is about to drain
C16_Witness ==
    /\ apc = "drain"
    /\ Len(pass_start) >= window_size + hop_size
    /\ Len(stft_frames) = 2
    /\ stft_frames[1] # stft_frames[2]

\* every bin of avg holds the same comparable magnitude
AllBinsEqual(avg) ==
    /\ avg # <<>>
    /\ \A b \in 1..Len(avg) : partial_cmp(avg[b], avg[1]) = "Equal"

\* C17: when every averaged bin has the same magnitude (a window of zeros,
\* say) the pass selects bin 0, the estimated frequency is 0 Hz, no note is
\* emitted and the published result is unchanged; the buffer is still
\* drained by hop_size.
C17_EqualBinsSelectBinZero ==
    [][(Analysed' /\ AllBinsEqual(average_magnitudes_per_bin'))
        => /\ strongest_bin_idx' = 0
           /\ dominant_freq' = 0
           /\ ~quantized'.some
           /\ apc' = "drain"
           /\ detected_note' = detected_note
           /\ detected_freq' = detected_freq]_vars

\* the 96 labels: a note name of the table followed by an octave in 0..7
TableLabels == {Label(NOTES[i][1], o) : i \in 1..Len(NOTES), o \in 0..7}

\* C18: whenever the analyzer is not in the middle of its publication step
\* the published pair is the initial ("A4", 440.0) or (label, f) with
\* f = k * sample_rate / window_size for a bin 1 <= k < window_size / 2 and
\* label the label frequency_to_note returns for f; the label is one of the
\* 96 labels, and f is the bin's frequency, not the note's.
C18_PublishedPairShape ==
    apc # "publish_freq"
        => \/ <<detected_note, detected_freq>> = <<InitialNote, InitialFreq>>
           \/ \E k \in 1..((window_size \div 2) - 1) :
                /\ detected_freq * window_size = k * sample_rate * UnitsPerHz
                /\ NoteOfBin[k + 1].some
                /\ detected_note = NoteOfBin[k + 1].label
                /\ detected_note \in TableLabels

\* a published pair whose frequency is the bin's and differs from the note's
C18_Witness ==
    /\ apc = "sleep"
    /\ detected_note = "B7"
    /\ detected_freq = DominantFreq(1)
    /\ detected_freq # NoteOfBin[2].note_freq
    /\ <<detected_note, detected_freq>> \in published

\* ------------------------------------------------------------------------
\* Claims about progress (specification SpecFair)
\* ------------------------------------------------------------------------
\* no activity holds both result locks, the analyzer holds a result lock
\* only inside its hold of the buffer lock, and nobody waits for the buffer
\* lock (the analyzer asleep, the callback at its lock) holding a result lock
LockOrder ==
    /\ ~(note_lock = "analyzer" /\ freq_lock = "analyzer")
    /\ ~(note_lock = "reader" /\ freq_lock = "reader")
    /\ (note_lock = "analyzer" \/ freq_lock = "analyzer") => buffer_lock = "analyzer"
    /\ apc = "sleep" => (note_lock # "analyzer" /\ freq_lock # "analyzer")
    /\ {note_lock, freq_lock, buffer_lock} \subseteq {"none", "analyzer", "reader"}
    /\ buffer_lock # "reader"

\* C19: the capture callback, the analyzer and the reader never deadlock:
\* the analyzer takes each result lock while it holds the buffer lock, no
\* activity waits for the buffer lock holding a result lock, none holds
\* both result locks, and under fair scheduling every lock request is
\* eventually granted.
C19_NoDeadlock ==
    /\ []LockOrder
    /\ (cpc = "lock") ~> (cpc = "idle")
    /\ (apc = "sleep") ~> (apc = "locked")
    /\ (apc = "publish_note") ~> (note_lock = "analyzer")
    /\ (apc = "publish_freq") ~> (freq_lock = "analyzer")
    /\ (rpc \in {"idle", "shown"}) ~> (note_lock = "reader")
    /\ (rpc = "note") ~> (freq_lock = "reader")

\* all three want a lock at once: the callback and the reader wait for the
\* analyzer, which holds the buffer lock and the note lock
C19_Witness ==
    /\ cpc = "lock"
    /\ buffer_lock = "analyzer"
    /\ note_lock = "analyzer"
    /\ rpc = "shown"

\* C20: if the capture callback stops appending then, the analyzer being
\* scheduled fairly, the buffer eventually stays shorter than window_size
\* (each pass over window_size samples or more shortens it by hop_size > 0);
\* from then on neither the buffer nor the published result changes, and
\* the samples left, fewer than window_size, are never analysed or drained.
C20_BacklogRunsOut ==
    /\ hop_size > 0
    /\ (<>[][all_appended' = all_appended]_vars) => <>[](Len(buffer) < window_size)
    /\ [][(Len(buffer) < window_size /\ all_appended' = all_appended)
            => /\ buffer' = buffer
               /\ stft_frames' = <<>>
               /\ detected_note' = detected_note
               /\ detected_freq' = detected_freq]_vars

\* after a pass and its drain the analyzer has skipped the samples left
C20_Witness ==
    /\ apc = "sleep"
    /\ last_pass = "skipped"
    /\ Len(buffer) = window_size - 1
    /\ Len(all_appended) = Len(buffer) + hop_size
    /\ cpc = "idle"

====
